---- MODULE Spec2Model ----
(***************************************************************************)
(* A model of src/src/file.rs (rust_cmus): read_all, buffer_for_each_line, *)
(* buffer_for_each_line_reverse and file_for_each_line.                    *)
(*                                                                         *)
(* Buffers are sequences of bytes; the code indexes them from 0, so every  *)
(* cursor below (pos, end, ...) is the code's 0-based value.               *)
(***************************************************************************)
EXTENDS Integers, Sequences, FiniteSets, TLC

\* ------------------------------------------------------------------ bounds
MaxLen == 4        \* longest buffer handed to the line walkers
MaxFile == 3       \* longest file handed to read_all
MaxBuf == 3        \* longest buffer handed to read_all
MaxIntr == 2       \* most Interrupted failures injected into one read_all call
MaxLines == 3      \* most items the line iterator of file_for_each_line yields

\* ------------------------------------------------------------------ bytes
LF == 10           \* b'\n'
CR == 13           \* b'\r'
LetterH == 72      \* b'H', a byte that is no delimiter
LetterW == 119     \* b'w', a second one
Byte == {LF, CR, LetterH, LetterW}

RECURSIVE SeqsUpTo(_, _)
SeqsUpTo(S, n) ==
    IF n = 0 THEN {<<>>}
    ELSE LET shorter == SeqsUpTo(S, n - 1)
         IN  shorter \cup {Append(s, x) : s \in {t \in shorter : Len(t) = n - 1}, x \in S}

Min(a, b) == IF a < b THEN a ELSE b

\* buf[i] with the code's 0-based index; 256 (no byte) outside the buffer
At(b, i) == IF i >= 0 /\ i < Len(b) THEN b[i + 1] ELSE 256

\* &buf[from..to]
Slice(b, from, to) == SubSeq(b, from + 1, to)

Reverse(s) == [i \in 1..Len(s) |-> s[Len(s) + 1 - i]]

IsPrefix(s, t) == Len(s) <= Len(t) /\ SubSeq(t, 1, Len(s)) = s

VARIABLES
    \* the line walkers
    buf,        \* the byte buffer both walkers are called on
    fpos,       \* buffer_for_each_line: pos
    flines,     \* the lines its callback received, in order
    fat,        \* the offset in buf each of those lines starts at
    fstate,     \* "run" (in the while loop) or "done" (returned)
    fstopped,   \* its callback has returned true
    rend,       \* buffer_for_each_line_reverse: end
    rlines,     \* the lines its callback received, in order
    rat,        \* the offset in buf each of those lines starts at
    rstate,     \* "run", "done" or "panic"
    rstopped,   \* its callback has returned true
    rtop,       \* end at the top of the latest iteration
    rcut,       \* end after the delimiter was excluded, latest iteration
    rpos,       \* pos after the backward scan, latest iteration
    \* read_all
    data,       \* the file's bytes
    off,        \* the descriptor's file offset
    rbuf,       \* the caller's buffer
    pos,        \* the fill position
    pc,         \* "metadata", "seek", "loop" or "done"
    ret,        \* what read_all returned
    closes,     \* how often the descriptor was closed
    seeks,      \* seek calls issued
    reads,      \* read calls issued
    okreads,    \* read calls that returned Ok
    nintr,      \* read calls that failed with Interrupted
    last,       \* the outcome of the latest read call
    \* file_for_each_line
    opens,      \* the outcome File::open will have
    items,      \* what reader.lines() yields, in file order
    idx,        \* items consumed by the for loop
    cbcalls,    \* the lines the callback was invoked with, in order
    cbres,      \* what each of those invocations returned
    lpc,        \* "open", "iter" or "done"
    lres        \* what file_for_each_line returned

walkVars == <<buf, fpos, flines, fat, fstate, fstopped,
              rend, rlines, rat, rstate, rstopped, rtop, rcut, rpos>>
readVars == <<data, off, rbuf, pos, pc, ret, closes, seeks, reads, okreads, nintr, last>>
fileVars == <<opens, items, idx, cbcalls, cbres, lpc, lres>>
vars == <<walkVars, readVars, fileVars>>

\* ============================================================ line walkers

\* if cb(..) { break; }: the walker's state after the callback returned `stop`
AfterCallbackNoBreak(stop) == "run"
AfterCallback(stop) == IF stop THEN "done" ELSE "run"

\* ------------------------------------------------- buffer_for_each_line
\* while end < size && buf[end] != b'\n' { end += 1; }
RECURSIVE FwdEnd(_, _)
FwdEnd(b, end) ==
    IF end < Len(b) /\ At(b, end) # LF THEN FwdEnd(b, end + 1) ELSE end

\* let mut len = end - pos; if end > pos && buf[end - 1] == b'\r' { len -= 1; }
FwdLenKeepCR(b, p, end) == end - p
FwdLen(b, p, end) ==
    IF end > p /\ At(b, end - 1) = CR THEN end - p - 1 ELSE end - p

\* one iteration of the outer while loop, the callback's answer being `stop`
ForwardStep ==
    /\ fstate = "run"
    /\ fpos < Len(buf)
    /\ \E stop \in BOOLEAN :
         LET end == FwdEnd(buf, fpos)
             len == FwdLen(buf, fpos, end)
             line == Slice(buf, fpos, fpos + len)
         IN  /\ flines' = Append(flines, line)
             /\ fat' = Append(fat, fpos)
             /\ fpos' = end + 1
             /\ fstopped' = stop
             /\ fstate' = AfterCallback(stop)
    /\ UNCHANGED <<buf, rend, rlines, rat, rstate, rstopped, rtop, rcut, rpos>>
    /\ UNCHANGED <<readVars, fileVars>>

\* the loop condition pos < size fails: the function returns
ForwardExit ==
    /\ fstate = "run"
    /\ fpos >= Len(buf)
    /\ fstate' = "done"
    /\ UNCHANGED <<buf, fpos, flines, fat, fstopped>>
    /\ UNCHANGED <<rend, rlines, rat, rstate, rstopped, rtop, rcut, rpos>>
    /\ UNCHANGED <<readVars, fileVars>>

\* ----------------------------------------- buffer_for_each_line_reverse
\* let mut end = buf.len(); if end > 0 { end -= 1; }
RevStart(b) == IF Len(b) > 0 THEN Len(b) - 1 ELSE 0

\* the delimiter exclusion at the top of an iteration
RevCutLooseGuard(b, end) ==
    IF end > 0 /\ At(b, end) = LF /\ At(b, end - 1) = CR THEN end - 2
    ELSE IF At(b, end) = LF THEN end - 1
    ELSE end
RevCut(b, end) ==
    IF end > 1 /\ At(b, end) = LF /\ At(b, end - 1) = CR THEN end - 2
    ELSE IF At(b, end) = LF THEN end - 1
    ELSE end

\* let mut pos = end; while pos > 0 && buf[pos - 1] != b'\n' { pos -= 1; }
RECURSIVE RevPos(_, _)
RevPos(b, p) ==
    IF p > 0 /\ At(b, p - 1) # LF THEN RevPos(b, p - 1) ELSE p

\* if pos > 0 { end = pos - 1; } else { end = 0; }
RevNext(p) == IF p > 0 THEN p - 1 ELSE 0

\* an index out of range, a usize subtraction below zero or a slice out of
\* range: the iteration panics instead of reaching the callback
RevPanics(b, end, cut, p) ==
    \/ end >= Len(b)                     \* buf[end]
    \/ cut < 0                           \* end -= 2, end -= 1
    \/ p < 0 \/ cut - p + 1 < 0          \* pos - 1, end - pos + 1
    \/ p + (cut - p + 1) > Len(b)        \* &buf[pos..pos + len]

\* one iteration of the while loop, the callback's answer being `stop`
ReverseStep ==
    /\ rstate = "run"
    /\ rend > 0
    /\ \E stop \in BOOLEAN :
         LET cut == RevCut(buf, rend)
             p == RevPos(buf, cut)
             len == cut - p + 1
         IN  /\ rtop' = rend
             /\ rcut' = cut
             /\ rpos' = p
             /\ IF RevPanics(buf, rend, cut, p)
                THEN /\ rstate' = "panic"
                     /\ UNCHANGED <<rend, rlines, rat, rstopped>>
                ELSE /\ rlines' = Append(rlines, Slice(buf, p, p + len))
                     /\ rat' = Append(rat, p)
                     /\ rend' = RevNext(p)
                     /\ rstopped' = stop
                     /\ rstate' = AfterCallback(stop)
    /\ UNCHANGED <<buf, fpos, flines, fat, fstate, fstopped>>
    /\ UNCHANGED <<readVars, fileVars>>

\* the loop condition end > 0 fails: the function returns
ReverseExit ==
    /\ rstate = "run"
    /\ rend = 0
    /\ rstate' = "done"
    /\ UNCHANGED <<buf, fpos, flines, fat, fstate, fstopped>>
    /\ UNCHANGED <<rend, rlines, rat, rstopped, rtop, rcut, rpos>>
    /\ UNCHANGED <<readVars, fileVars>>

\* ================================================================ read_all
Ok(n) == [tag |-> "Ok", n |-> n]
Err(kind) == [tag |-> "Err", kind |-> kind]

\* the io::ErrorKind of a failed call; Interrupted is the one read_all retries
ErrorKinds == {"Interrupted", "WouldBlock", "Other"}

\* Err(ref e) if e.kind() == io::ErrorKind::Interrupted => {}
IsRetriedNever(kind) == FALSE
IsRetried(kind) == kind = "Interrupted"

\* file.seek(SeekFrom::Start(0)): the descriptor's offset after the seek
SeekKeepsOffset(o) == o
SeekStart(o) == 0

\* &mut buf[pos..]: the most bytes one read call may deliver
ReadLimitWholeBuf(b, p) == Len(b)
ReadLimit(b, p) == Len(b) - p

\* `file` owns the descriptor and is dropped on every return: closes it once
ClosesOnOkOnly(r) == IF r.tag = "Ok" THEN 1 ELSE 0
ClosesOnReturn(r) == 1

\* read_all returns r
Return(r) ==
    /\ pc' = "done"
    /\ ret' = r
    /\ closes' = closes + ClosesOnReturn(r)

\* the bytes of b from position p on overwritten by `bytes`
Fill(b, p, bytes) ==
    [i \in 1..Len(b) |-> IF i > p /\ i <= p + Len(bytes) THEN bytes[i - p] ELSE b[i]]

\* let metadata = file.metadata()?; and the early return of Ok(0)
QueryMetadata ==
    /\ pc = "metadata"
    /\ \/ \E e \in ErrorKinds : Return(Err(e))
       \/ /\ Len(data) = 0 \/ Len(rbuf) = 0
          /\ Return(Ok(0))
       \/ /\ ~(Len(data) = 0 \/ Len(rbuf) = 0)
          /\ pc' = "seek"
          /\ UNCHANGED <<ret, closes>>
    /\ UNCHANGED <<data, off, rbuf, pos, seeks, reads, okreads, nintr, last>>
    /\ UNCHANGED <<walkVars, fileVars>>

\* file.seek(SeekFrom::Start(0))?; let mut pos = 0;
SeekToStart ==
    /\ pc = "seek"
    /\ seeks' = seeks + 1
    /\ \/ /\ off' = SeekStart(off)
          /\ pos' = 0
          /\ pc' = "loop"
          /\ UNCHANGED <<ret, closes>>
       \/ /\ \E e \in ErrorKinds : Return(Err(e))
          /\ UNCHANGED <<off, pos>>
    /\ UNCHANGED <<data, rbuf, reads, okreads, nintr, last>>
    /\ UNCHANGED <<walkVars, fileVars>>

\* while pos < buf.len() fails: Ok(pos)
LoopExit ==
    /\ pc = "loop"
    /\ ~(pos < Len(rbuf))
    /\ Return(Ok(pos))
    /\ UNCHANGED <<data, off, rbuf, pos, seeks, reads, okreads, nintr, last>>
    /\ UNCHANGED <<walkVars, fileVars>>

\* file.read(&mut buf[pos..]) returns Ok(n), n > 0: pos += n
ReadSome ==
    /\ pc = "loop"
    /\ pos < Len(rbuf)
    /\ off < Len(data)
    /\ \E n \in 1..Min(ReadLimit(rbuf, pos), Len(data) - off) :
         /\ rbuf' = Fill(rbuf, pos, SubSeq(data, off + 1, off + n))
         /\ off' = off + n
         /\ pos' = pos + n
    /\ reads' = reads + 1
    /\ okreads' = okreads + 1
    /\ last' = "Ok"
    /\ UNCHANGED <<data, pc, ret, closes, seeks, nintr>>
    /\ UNCHANGED <<walkVars, fileVars>>

\* file.read(..) returns Ok(0) at end-of-file: break, then Ok(pos)
ReadEof ==
    /\ pc = "loop"
    /\ pos < Len(rbuf)
    /\ off >= Len(data)
    /\ reads' = reads + 1
    /\ okreads' = okreads + 1
    /\ last' = "Eof"
    /\ Return(Ok(pos))
    /\ UNCHANGED <<data, off, rbuf, pos, seeks, nintr>>
    /\ UNCHANGED <<walkVars, fileVars>>

\* file.read(..) returns Err(e): retried if Interrupted, returned otherwise
ReadErr ==
    /\ pc = "loop"
    /\ pos < Len(rbuf)
    /\ \E e \in ErrorKinds :
         /\ last' = e
         /\ reads' = reads + 1
         /\ \/ /\ IsRetried(e)
               /\ nintr < MaxIntr
               /\ nintr' = nintr + 1
               /\ UNCHANGED <<pc, ret, closes>>
            \/ /\ ~IsRetried(e)
               /\ Return(Err(e))
               /\ UNCHANGED nintr
    /\ UNCHANGED <<data, off, rbuf, pos, seeks, okreads>>
    /\ UNCHANGED <<walkVars, fileVars>>

\* ====================================================== file_for_each_line
OpenErrors == {"NotFound", "PermissionDenied"}
LineErrors == {"InvalidData"}
CallbackErrors == {"CbFailA", "CbFailB"}
LineTexts == {<<>>, <<LetterH>>, <<LetterW, LetterW>>}

\* an item of reader.lines(): io::Result<String>
LineItems ==
    {[tag |-> "Ok", text |-> t] : t \in LineTexts}
        \cup {[tag |-> "Err", kind |-> k] : k \in LineErrors}

\* cb(&line)?: whether the callback's result ends the function
PropagatesNever(r) == FALSE
Propagates(r) == r # "Ok"

\* let file = File::open(&Path::new(filename))?;
OpenFile ==
    /\ lpc = "open"
    /\ IF opens = "Ok"
       THEN lpc' = "iter" /\ UNCHANGED lres
       ELSE lpc' = "done" /\ lres' = Err(opens)
    /\ UNCHANGED <<opens, items, idx, cbcalls, cbres>>
    /\ UNCHANGED <<walkVars, readVars>>

\* one iteration of for line in reader.lines(): let line = line?; cb(&line)?;
NextLine ==
    /\ lpc = "iter"
    /\ idx < Len(items)
    /\ idx' = idx + 1
    /\ LET item == items[idx + 1]
       IN  \/ /\ item.tag = "Err"
              /\ lres' = Err(item.kind)
              /\ lpc' = "done"
              /\ UNCHANGED <<cbcalls, cbres>>
           \/ /\ item.tag = "Ok"
              /\ \E r \in {"Ok"} \cup CallbackErrors :
                   /\ cbcalls' = Append(cbcalls, item.text)
                   /\ cbres' = Append(cbres, r)
                   /\ IF Propagates(r)
                      THEN lres' = Err(r) /\ lpc' = "done"
                      ELSE UNCHANGED <<lres, lpc>>
    /\ UNCHANGED <<opens, items>>
    /\ UNCHANGED <<walkVars, readVars>>

\* the iterator is exhausted: Ok(())
EndOfLines ==
    /\ lpc = "iter"
    /\ idx = Len(items)
    /\ lres' = [tag |-> "Ok"]
    /\ lpc' = "done"
    /\ UNCHANGED <<opens, items, idx, cbcalls, cbres>>
    /\ UNCHANGED <<walkVars, readVars>>

\* ------------------------------------------------ properties of the walkers
\* the whole run of each walker when its callback never asks to stop
RECURSIVE ForwardAll(_, _)
ForwardAll(b, p) ==
    IF p < Len(b)
    THEN LET end == FwdEnd(b, p)
         IN  <<Slice(b, p, p + FwdLen(b, p, end))>> \o ForwardAll(b, end + 1)
    ELSE <<>>

RECURSIVE ReverseAll(_, _)
ReverseAll(b, end) ==
    IF end > 0
    THEN LET cut == RevCut(b, end)
             p == RevPos(b, cut)
         IN  <<Slice(b, p, cut + 1)>> \o ReverseAll(b, RevNext(p))
    ELSE <<>>

WalkersRanToEnd ==
    /\ fstate = "done" /\ ~fstopped
    /\ rstate = "done" /\ ~rstopped

\* C1: with callbacks that never ask to stop, the lines the reverse walker
\* delivers are the lines the forward walker delivers on the same buffer, in
\* the opposite order.
C1_ReverseIsForwardReversed ==
    WalkersRanToEnd => rlines = Reverse(flines)

\* a delivered line, starting at offset `at` of b, holds a delimiter byte: a
\* line-feed, or as its last byte the carriage-return right before the
\* line-feed that ends the line
HoldsDelimiter(b, line, at) ==
    \/ \E i \in 1..Len(line) : line[i] = LF
    \/ /\ Len(line) > 0
       /\ line[Len(line)] = CR
       /\ At(b, at + Len(line)) = LF

ForwardLinesClean ==
    \A i \in 1..Len(flines) : ~HoldsDelimiter(buf, flines[i], fat[i])

ReverseLinesClean ==
    \A i \in 1..Len(rlines) : ~HoldsDelimiter(buf, rlines[i], rat[i])

\* C2: no line either walker delivers contains a delimiter byte: no
\* line-feed, and no final carriage-return that immediately precedes the
\* line-feed terminating the line.
C2_NoDelimiterInLine ==
    ForwardLinesClean /\ ReverseLinesClean

\* the reference split of a buffer: cut at every line-feed; what follows the
\* last line-feed is a line only if it is not empty
FirstLF(b) ==
    IF \E i \in 1..Len(b) : b[i] = LF
    THEN CHOOSE i \in 1..Len(b) : b[i] = LF /\ \A j \in 1..(i - 1) : b[j] # LF
    ELSE 0

DropFinalCR(seg) ==
    IF Len(seg) > 0 /\ seg[Len(seg)] = CR THEN SubSeq(seg, 1, Len(seg) - 1) ELSE seg

\* the carriage-return is dropped only where a line-feed follows it
RECURSIVE RefSplitBeforeLF(_)
RefSplitBeforeLF(b) ==
    IF b = <<>> THEN <<>>
    ELSE LET k == FirstLF(b)
         IN  IF k = 0 THEN <<b>>
             ELSE <<DropFinalCR(SubSeq(b, 1, k - 1))>>
                  \o RefSplitBeforeLF(SubSeq(b, k + 1, Len(b)))

\* the carriage-return is dropped at the end of every segment, also the
\* unterminated last one
RECURSIVE RefSplit(_)
RefSplit(b) ==
    IF b = <<>> THEN <<>>
    ELSE LET k == FirstLF(b)
         IN  IF k = 0 THEN <<DropFinalCR(b)>>
             ELSE <<DropFinalCR(SubSeq(b, 1, k - 1))>>
                  \o RefSplit(SubSeq(b, k + 1, Len(b)))

C9_ReverseCursorInRange ==
    /\ rstate # "panic"
    /\ rend >= 0
    /\ Len(rlines) <= Len(buf)
    /\ Len(rlines) > 0 =>
         /\ 0 <= rpos /\ rpos <= rcut /\ rcut <= rtop /\ rtop < Len(buf)
         /\ rend < rtop

\* a CRLF was excluded (end -= 2) in the second iteration
C9_Witness ==
    /\ Len(rlines) = 2
    /\ rcut = rtop - 2
    /\ rstate = "done"

\* ------------------------------------------------- properties of read_all
\* C3: when read_all returns Ok(n), n = min(S, L) for a file of S bytes and a
\* buffer of L bytes, and buf[0..n) holds the first n bytes of the file,
\* whatever the descriptor's initial offset, however short the reads and
\* however many Interrupted failures came between them.
C3_ReadAllReturnsPrefix ==
    (pc = "done" /\ ret.tag = "Ok") =>
        /\ ret.n = Min(Len(data), Len(rbuf))
        /\ SubSeq(rbuf, 1, ret.n) = SubSeq(data, 1, ret.n)

\* a 3-byte file read into a 2-byte buffer by two one-byte reads with an
\* Interrupted failure among them
C3_Witness ==
    /\ pc = "done" /\ ret = Ok(2)
    /\ Len(data) = 3 /\ Len(rbuf) = 2
    /\ okreads = 2 /\ nintr >= 1

\* C5: a read failing with Interrupted leaves the fill position and the
\* buffer alone, keeps the call in its loop and is never what read_all
\* returns; a read failing with any other kind ends the call at once with
\* that error (and so with no byte count), and no read follows the return.
C5_InterruptedRetriedOthersReturned ==
    /\ [][(reads' = reads + 1 /\ last' = "Interrupted") =>
            (pos' = pos /\ rbuf' = rbuf /\ pc' = "loop" /\ ret' = ret)]_vars
    /\ []((ret.tag = "Err" /\ reads > 0) => ret.kind # "Interrupted")
    /\ [][(reads' = reads + 1 /\ last' \in ErrorKinds \ {"Interrupted"}) =>
            (pc' = "done" /\ ret' = Err(last'))]_vars
    /\ [][pc = "done" => reads' = reads]_vars

\* bytes were read, a read was interrupted and retried, then a read failed
\* with WouldBlock, which is what the call returned
C5_Witness ==
    /\ pc = "done" /\ ret = Err("WouldBlock")
    /\ nintr >= 1 /\ pos >= 1 /\ last = "WouldBlock"

\* C8: read_all closes the descriptor exactly once on every return path and
\* not before; when the file or the buffer is empty it has issued no seek and
\* no read before the close.
C8_ClosedOnceOnEveryReturn ==
    /\ pc = "done" <=> closes = 1
    /\ pc # "done" <=> closes = 0
    /\ (pc = "done" /\ (Len(data) = 0 \/ Len(rbuf) = 0) /\ ret.tag = "Ok") =>
         (seeks = 0 /\ reads = 0 /\ ret.n = 0)

\* a read error ended the call after a seek and a read that delivered bytes
C8_Witness ==
    /\ pc = "done" /\ ret.tag = "Err" /\ closes = 1
    /\ seeks = 1 /\ okreads >= 1

\* C10: the fill position stays within 0..buf.len(); every successful
\* non-zero read strictly increases it and an Interrupted failure leaves it;
\* a zero read or a full buffer ends the loop; a call makes at most buf.len()
\* successful reads; and, Interrupted failures being finitely many, the call
\* returns.
C10_ReadLoopBoundedAndReturns ==
    /\ [](0 <= pos /\ pos <= Len(rbuf) /\ okreads <= Len(rbuf))
    /\ [][(okreads' = okreads + 1 /\ last' = "Ok") => pos' > pos]_vars
    /\ [][(reads' = reads + 1 /\ last' = "Interrupted") => pos' = pos]_vars
    /\ [][(reads' = reads + 1 /\ last' = "Eof") => pc' = "done"]_vars
    /\ [][(pc = "loop" /\ pos >= Len(rbuf)) => pc' = "done"]_vars
    /\ <>(pc = "done")

\* a 3-byte buffer filled by three one-byte reads, two Interrupted failures
\* among them
C10_Witness ==
    /\ pc = "done" /\ ret.tag = "Ok"
    /\ Len(rbuf) = 3 /\ okreads = 3 /\ pos = 3 /\ nintr >= 2

\* --------------------------------------- properties of file_for_each_line
AllAccepted == \A i \in 1..Len(cbres) : cbres[i] = "Ok"

\* C7: the callback is invoked once per line in file order; nothing is
\* invoked after the first callback failure or line failure, which is what
\* the function returns; it returns Ok only if the file was opened and every
\* line was read and accepted; and if the file cannot be opened it returns
\* that error without invoking the callback.
C7_FileLinesPropagateFirstFailure ==
    /\ Len(cbres) = Len(cbcalls)
    /\ Len(cbcalls) <= Len(items)
    /\ \A i \in 1..Len(cbcalls) : items[i].tag = "Ok" /\ cbcalls[i] = items[i].text
    /\ \A i \in 1..(Len(cbres) - 1) : cbres[i] = "Ok"
    /\ lpc # "done" => AllAccepted
    /\ opens # "Ok" => (cbcalls = <<>> /\ (lpc = "done" => lres = Err(opens)))
    /\ (lpc = "done" /\ lres.tag = "Ok") =>
         (opens = "Ok" /\ Len(cbcalls) = Len(items) /\ AllAccepted)
    /\ (lpc = "done" /\ opens = "Ok" /\ ~AllAccepted) =>
         lres = Err(cbres[Len(cbres)])
    /\ (lpc = "done" /\ opens = "Ok" /\ AllAccepted /\ Len(cbcalls) < Len(items)) =>
         /\ items[Len(cbcalls) + 1].tag = "Err"
         /\ lres = Err(items[Len(cbcalls) + 1].kind)

\* the callback accepted the first line and failed on the second of three
C7_Witness ==
    /\ lpc = "done" /\ lres = Err("CbFailB")
    /\ Len(items) = 3 /\ Len(cbcalls) = 2
    /\ cbres = <<"Ok", "CbFailB">>

\* ============================================================ idle parts
ReadIdle ==
    /\ data = <<>> /\ off = 0 /\ rbuf = <<>> /\ pos = 0 /\ pc = "done"
    /\ ret = [tag |-> "None"] /\ closes = 0 /\ seeks = 0 /\ reads = 0
    /\ okreads = 0 /\ nintr = 0 /\ last = "None"

FileIdle ==
    /\ opens = "Ok" /\ items = <<>> /\ idx = 0 /\ cbcalls = <<>> /\ cbres = <<>>
    /\ lpc = "done" /\ lres = [tag |-> "None"]

WalkIdle ==
    /\ buf = <<>> /\ fpos = 0 /\ flines = <<>> /\ fat = <<>> /\ fstate = "done"
    /\ fstopped = FALSE /\ rend = 0 /\ rlines = <<>> /\ rat = <<>>
    /\ rstate = "done" /\ rstopped = FALSE /\ rtop = 0 /\ rcut = 0 /\ rpos = 0

\* ============================================== specification: the walkers
\* both walkers are called on the same buffer, each with its own callback
InitWalk ==
    /\ buf \in SeqsUpTo(Byte, MaxLen)
    /\ fpos = 0 /\ flines = <<>> /\ fat = <<>> /\ fstate = "run" /\ fstopped = FALSE
    /\ rend = RevStart(buf) /\ rlines = <<>> /\ rat = <<>> /\ rstate = "run"
    /\ rstopped = FALSE /\ rtop = 0 /\ rcut = 0 /\ rpos = 0
    /\ ReadIdle
    /\ FileIdle

NextWalk == ForwardStep \/ ForwardExit \/ ReverseStep \/ ReverseExit

SpecWalk == InitWalk /\ [][NextWalk]_vars

\* ================================================ specification: read_all
\* read_all is called on a descriptor at any offset of any file, with a
\* zeroed buffer of any length
InitRead ==
    /\ data \in SeqsUpTo({LetterH, LetterW}, MaxFile)
    /\ off \in 0..Len(data)
    /\ rbuf \in {[i \in 1..n |-> 0] : n \in 0..MaxBuf}
    /\ pos = 0 /\ pc = "metadata" /\ ret = [tag |-> "None"]
    /\ closes = 0 /\ seeks = 0 /\ reads = 0 /\ okreads = 0 /\ nintr = 0
    /\ last = "None"
    /\ WalkIdle
    /\ FileIdle

NextRead == QueryMetadata \/ SeekToStart \/ LoopExit \/ ReadSome \/ ReadEof \/ ReadErr

SpecRead == InitRead /\ [][NextRead]_vars

\* the call keeps running; the Interrupted failures of one call are finitely
\* many (MaxIntr)
SpecReadFair == SpecRead /\ WF_vars(NextRead)

\* ====================================== specification: file_for_each_line
InitFile ==
    /\ opens \in {"Ok"} \cup OpenErrors
    /\ items \in SeqsUpTo(LineItems, MaxLines)
    /\ idx = 0 /\ cbcalls = <<>> /\ cbres = <<>> /\ lpc = "open"
    /\ lres = [tag |-> "None"]
    /\ WalkIdle
    /\ ReadIdle

NextFile == OpenFile \/ NextLine \/ EndOfLines

SpecFile == InitFile /\ [][NextFile]_vars

====
